---- MODULE Spec2Model ----
(***************************************************************************)
(* Model of simple_calender (src/src/main.rs): a persisted calendar of     *)
(* schedules with a listing command and a conflict-checked add command.    *)
(***************************************************************************)
EXTENDS Integers, Sequences, FiniteSets, TLC

VARIABLES
    store,      \* the document in schedules.json: the sequence Calendar.schedules
    prev,       \* the document as it was when the last invocation started
    cmd,        \* the last command line that was run
    stdout,     \* the lines printed by the last invocation, each a tuple of its tab-separated fields
    self,       \* receiver of the intersects call under test
    other,      \* argument of the intersects call under test
    called,     \* whether the intersects calls under test have been made
    fwd,        \* result of self.intersects(other)
    rev,        \* result of other.intersects(self)
    file,       \* schedules.json as concurrent invocations see it: whether it exists, and its text
    procs       \* the invocations running side by side, each with its position and locals

vars == <<store, prev, cmd, stdout, self, other, called, fwd, rev, file, procs>>

calVars == <<store, prev, cmd, stdout>>
testVars == <<self, other, called, fwd, rev>>
procVars == <<file, procs>>

----------------------------------------------------------------------------
(* Bounds *)

MaxTime == 4      \* the unit tests draw instants from the half days 0..MaxTime
MaxArgTime == 2   \* the command line draws instants from the half days 0..MaxArgTime
MaxLen == 2       \* the store is not grown beyond MaxLen schedules
NumProcs == 2     \* invocations running side by side
MaxProcTime == 1  \* their command lines draw instants from the half days 0..MaxProcTime

----------------------------------------------------------------------------
(* NaiveDateTime: a date and a time of day, ordered by date, then time *)

Instants(n) == {[date |-> t \div 2, time |-> t % 2] : t \in 0..n}

DateTimes == Instants(MaxTime)

ArgTimes == Instants(MaxArgTime)

Lt(x, y) == x.date < y.date \/ (x.date = y.date /\ x.time < y.time)

Le(x, y) == x = y \/ Lt(x, y)

Subjects == {"", "mtg"}

Epoch == [date |-> 0, time |-> 0]

(* struct Schedule *)
Schedule(id, subject, start, end) ==
    [id |-> id, subject |-> subject, start |-> start, end |-> end]

(* A slip in the comparison: the receiver's end instead of its start *)
intersects_selfEnd(s, o) == Lt(s.end, o.end)

(* Schedule::intersects *)
intersects(s, o) == Lt(s.start, o.end)

----------------------------------------------------------------------------
(* Messages and table header, printed by println! *)

MsgConflict == <<"error: schedules overlap">>
MsgAdded == <<"schedule added">>
Header == <<"ID", "Start", "End", "Subject">>

Row(schedule) == <<schedule.id, schedule.start, schedule.end, schedule.subject>>

NoCmd == [op |-> "none", subject |-> "", start |-> Epoch, end |-> Epoch]
ListCmd == [op |-> "list", subject |-> "", start |-> Epoch, end |-> Epoch]
AddCmd(subject, start, end) ==
    [op |-> "add", subject |-> subject, start |-> start, end |-> end]

----------------------------------------------------------------------------
(* add_schedule, piece by piece *)

(* Ids counted from one instead of from the current length *)
NewSchedule_idFromOne(calendar, subject, start, end) ==
    Schedule(Len(calendar) + 1, subject, start, end)

NewSchedule(calendar, subject, start, end) ==
    Schedule(Len(calendar), subject, start, end)

(* The scan starting one schedule too late *)
Conflicts_skipsFirst(calendar, new_schedule) ==
    \E i \in 2..Len(calendar) : intersects(calendar[i], new_schedule)

Conflicts(calendar, new_schedule) ==
    \E i \in 1..Len(calendar) : intersects(calendar[i], new_schedule)

(* The new schedule inserted at the front instead of pushed at the back *)
Push_front(calendar, new_schedule) == <<new_schedule>> \o calendar

Push(calendar, new_schedule) == Append(calendar, new_schedule)

(* The permutation that orders a calendar by start, ties in stored order *)
ByStart(calendar) ==
    CHOOSE p \in [1..Len(calendar) -> 1..Len(calendar)] :
        /\ \A i, j \in 1..Len(calendar) : i # j => p[i] # p[j]
        /\ \A i, j \in 1..Len(calendar) :
              i < j => \/ Lt(calendar[p[i]].start, calendar[p[j]].start)
                       \/ /\ calendar[p[i]].start = calendar[p[j]].start
                          /\ p[i] < p[j]

(* The table sorted by start time instead of printed in stored order *)
ListLines_sorted(calendar) ==
    <<Header>> \o [i \in 1..Len(calendar) |-> Row(calendar[ByStart(calendar)[i]])]

ListLines(calendar) ==
    <<Header>> \o [i \in 1..Len(calendar) |-> Row(calendar[i])]

----------------------------------------------------------------------------
(* schedules.json: the text serde_json writes and reads, token by token *)

TokOpen == <<"{\"schedules\":[">>
TokClose == <<"]}">>
TokItem(schedule) == <<"item", schedule>>
TokHole == <<"nul">>

(* serde_json::to_writer(writer, &calendar) *)
Serialize(calendar) ==
    <<TokOpen>> \o [i \in 1..Len(calendar) |-> TokItem(calendar[i])] \o <<TokClose>>

(* what serde_json::from_reader accepts *)
WellFormed(text) ==
    /\ Len(text) >= 2
    /\ text[1] = TokOpen
    /\ text[Len(text)] = TokClose
    /\ \A i \in 2..(Len(text) - 1) : Len(text[i]) = 2 /\ text[i][1] = "item"

(* serde_json::from_reader on an accepted text *)
Deserialize(text) == [i \in 1..(Len(text) - 2) |-> text[i + 1][2]]

NoFile == [exists |-> FALSE, text |-> <<>>]

FileOf(text) == [exists |-> TRUE, text |-> text]

(* A missing file read as an empty calendar instead of aborting *)
Load_orEmpty(f) ==
    IF ~f.exists THEN [ok |-> TRUE, calendar |-> <<>>]
    ELSE IF ~WellFormed(f.text) THEN [ok |-> FALSE, calendar |-> <<>>]
    ELSE [ok |-> TRUE, calendar |-> Deserialize(f.text)]

(* File::open(SCHEDULE_FILE).unwrap() and serde_json::from_reader(reader).unwrap() *)
Load(f) ==
    IF ~f.exists THEN [ok |-> FALSE, calendar |-> <<>>]
    ELSE IF ~WellFormed(f.text) THEN [ok |-> FALSE, calendar |-> <<>>]
    ELSE [ok |-> TRUE, calendar |-> Deserialize(f.text)]

(* File::create(SCHEDULE_FILE): the file is created, or emptied if it exists *)
Create(f) == FileOf(<<>>)

(* The file opened for appending: every write lands at the end of the file *)
WriteAt_append(f, off, tok) == FileOf(Append(f.text, tok))

(* a write of one token at an offset of the file, a gap before it reading as NULs *)
WriteAt(f, off, tok) ==
    FileOf([i \in 1..(IF Len(f.text) > off + 1 THEN Len(f.text) ELSE off + 1) |->
               IF i = off + 1 THEN tok
               ELSE IF i <= Len(f.text) THEN f.text[i]
               ELSE TokHole])

Procs == 1..NumProcs

ProcTimes == Instants(MaxProcTime)

ProcSubjects == {"mtg"}

NewProc ==
    [pc |-> "start", op |-> "none", loaded |-> <<>>,
     new_schedule |-> Schedule(0, "", Epoch, Epoch),
     calendar |-> <<>>, off |-> 0, out |-> <<>>]

----------------------------------------------------------------------------
(* Commands *)

show_list ==
    /\ LET calendar == store
       IN  stdout' = ListLines(calendar)
    /\ prev' = store
    /\ cmd' = ListCmd
    /\ UNCHANGED store
    /\ UNCHANGED testVars
    /\ UNCHANGED procVars

(* The calendar pushed and saved before the overlap check *)
add_schedule_savesFirst(subject, start, end) ==
    /\ Len(store) < MaxLen
    /\ LET calendar == store
           new_schedule == NewSchedule(calendar, subject, start, end)
       IN  /\ store' = Push(calendar, new_schedule)
           /\ stdout' = IF Conflicts(calendar, new_schedule)
                         THEN <<MsgConflict>> ELSE <<MsgAdded>>
    /\ prev' = store
    /\ cmd' = AddCmd(subject, start, end)
    /\ UNCHANGED testVars
    /\ UNCHANGED procVars

add_schedule(subject, start, end) ==
    /\ LET calendar == store
           new_schedule == NewSchedule(calendar, subject, start, end)
       IN  IF Conflicts(calendar, new_schedule)
           THEN /\ stdout' = <<MsgConflict>>
                /\ UNCHANGED store
           ELSE /\ Len(calendar) < MaxLen
                /\ store' = Push(calendar, new_schedule)
                /\ stdout' = <<MsgAdded>>
    /\ prev' = store
    /\ cmd' = AddCmd(subject, start, end)
    /\ UNCHANGED testVars
    /\ UNCHANGED procVars

main ==
    \/ show_list
    \/ \E subject \in Subjects, start \in ArgTimes, end \in ArgTimes :
          add_schedule(subject, start, end)

Init ==
    /\ store = <<>>
    /\ prev = <<>>
    /\ cmd = NoCmd
    /\ stdout = <<>>
    /\ self = Schedule(1, "existing", Epoch, Epoch)
    /\ other = Schedule(2, "new", Epoch, Epoch)
    /\ called = FALSE
    /\ fwd = FALSE
    /\ rev = FALSE
    /\ file = FileOf(Serialize(<<>>))
    /\ procs = [p \in Procs |-> NewProc]

Next == main

Spec == Init /\ [][Next]_vars

----------------------------------------------------------------------------
(* Schedule::intersects on its own, as the unit tests call it *)

test_schedule_intersects ==
    /\ ~called
    /\ called' = TRUE
    /\ fwd' = intersects(self, other)
    /\ rev' = intersects(other, self)
    /\ UNCHANGED <<self, other>>
    /\ UNCHANGED calVars
    /\ UNCHANGED procVars

InitIntersects ==
    /\ store = <<>>
    /\ prev = <<>>
    /\ cmd = NoCmd
    /\ stdout = <<>>
    /\ self \in {Schedule(1, "existing", s, e) : s \in DateTimes, e \in DateTimes}
    /\ other \in {Schedule(2, "new", s, e) : s \in DateTimes, e \in DateTimes}
    /\ called = FALSE
    /\ fwd = FALSE
    /\ rev = FALSE
    /\ file = FileOf(Serialize(<<>>))
    /\ procs = [p \in Procs |-> NewProc]

NextIntersects == test_schedule_intersects

SpecIntersects == InitIntersects /\ [][NextIntersects]_vars

----------------------------------------------------------------------------
(* Invocations side by side on one schedules.json, step by step *)

(* show_list in invocation p: open, read, print *)
proc_show_list(p) ==
    /\ procs[p].pc = "start"
    /\ LET got == Load(file)
       IN  procs' = [procs EXCEPT ![p] =
               IF ~got.ok
               THEN [@ EXCEPT !.pc = "panicked", !.op = "list"]
               ELSE [@ EXCEPT !.pc = "done", !.op = "list",
                              !.loaded = got.calendar,
                              !.calendar = got.calendar,
                              !.out = ListLines(got.calendar)]]
    /\ UNCHANGED file
    /\ UNCHANGED calVars
    /\ UNCHANGED testVars

(* add_schedule in invocation p, up to the push: open, read, build the     *)
(* candidate, scan for a conflict, push                                    *)
proc_add_load(p, subject, start, end) ==
    /\ procs[p].pc = "start"
    /\ LET got == Load(file)
           new_schedule == NewSchedule(got.calendar, subject, start, end)
       IN  procs' = [procs EXCEPT ![p] =
               IF ~got.ok
               THEN [@ EXCEPT !.pc = "panicked", !.op = "add"]
               ELSE IF Conflicts(got.calendar, new_schedule)
               THEN [@ EXCEPT !.pc = "done", !.op = "add",
                              !.loaded = got.calendar,
                              !.new_schedule = new_schedule,
                              !.calendar = got.calendar,
                              !.out = <<MsgConflict>>]
               ELSE [@ EXCEPT !.pc = "create", !.op = "add",
                              !.loaded = got.calendar,
                              !.new_schedule = new_schedule,
                              !.calendar = Push(got.calendar, new_schedule)]]
    /\ UNCHANGED file
    /\ UNCHANGED calVars
    /\ UNCHANGED testVars

(* File::create(SCHEDULE_FILE).unwrap() in invocation p *)
proc_add_create(p) ==
    /\ procs[p].pc = "create"
    /\ file' = Create(file)
    /\ procs' = [procs EXCEPT ![p] = [@ EXCEPT !.pc = "write", !.off = 0]]
    /\ UNCHANGED calVars
    /\ UNCHANGED testVars

(* serde_json::to_writer in invocation p: the next token goes to the file  *)
(* at this invocation's own offset; after the last one the success message *)
(* is printed                                                              *)
proc_add_write(p) ==
    /\ procs[p].pc = "write"
    /\ LET text == Serialize(procs[p].calendar)
           off == procs[p].off
       IN  /\ file' = WriteAt(file, off, text[off + 1])
           /\ procs' = [procs EXCEPT ![p] =
                   IF off + 1 = Len(text)
                   THEN [@ EXCEPT !.pc = "done", !.off = off + 1, !.out = <<MsgAdded>>]
                   ELSE [@ EXCEPT !.off = off + 1]]
    /\ UNCHANGED calVars
    /\ UNCHANGED testVars

(* invocation p dies between File::create and the end of to_writer: a     *)
(* failed write unwraps into a panic, or the process is killed             *)
proc_add_interrupt(p) ==
    /\ procs[p].pc = "write"
    /\ procs' = [procs EXCEPT ![p] = [@ EXCEPT !.pc = "crashed"]]
    /\ UNCHANGED file
    /\ UNCHANGED calVars
    /\ UNCHANGED testVars

(* the save of invocation p taken as one step: the file goes from the old  *)
(* document to the new one at once                                         *)
proc_add_save_atomic(p) ==
    /\ procs[p].pc = "create"
    /\ file' = FileOf(Serialize(procs[p].calendar))
    /\ procs' = [procs EXCEPT ![p] =
            [@ EXCEPT !.pc = "done", !.off = Len(Serialize(procs[p].calendar)),
                      !.out = <<MsgAdded>>]]
    /\ UNCHANGED calVars
    /\ UNCHANGED testVars

InitProcs ==
    /\ store = <<>>
    /\ prev = <<>>
    /\ cmd = NoCmd
    /\ stdout = <<>>
    /\ self = Schedule(1, "existing", Epoch, Epoch)
    /\ other = Schedule(2, "new", Epoch, Epoch)
    /\ called = FALSE
    /\ fwd = FALSE
    /\ rev = FALSE
    /\ file \in {NoFile, FileOf(Serialize(<<>>))}
    /\ procs = [p \in Procs |-> NewProc]

NextProcs ==
    \E p \in Procs :
        \/ proc_show_list(p)
        \/ \E subject \in ProcSubjects, start \in ProcTimes, end \in ProcTimes :
              proc_add_load(p, subject, start, end)
        \/ proc_add_create(p)
        \/ proc_add_write(p)
        \/ proc_add_interrupt(p)

SpecProcs == InitProcs /\ [][NextProcs]_vars

NextAtomicSave ==
    \E p \in Procs :
        \/ proc_show_list(p)
        \/ \E subject \in ProcSubjects, start \in ProcTimes, end \in ProcTimes :
              proc_add_load(p, subject, start, end)
        \/ proc_add_save_atomic(p)

SpecAtomicSave == InitProcs /\ [][NextAtomicSave]_vars

----------------------------------------------------------------------------
(* Vocabulary of the properties *)

Valid(s) == Lt(s.start, s.end)

(* the half-open overlap of [a.start, a.end) and [b.start, b.end) *)
Overlaps(a, b) == Lt(a.start, b.end) /\ Lt(b.start, a.end)

(* some instant lies in both intervals *)
SharesInstant(a, b) ==
    \E t \in DateTimes :
        /\ Le(a.start, t) /\ Lt(t, a.end)
        /\ Le(b.start, t) /\ Lt(t, b.end)

AddReported(msg) == cmd.op = "add" /\ stdout = <<msg>>

----------------------------------------------------------------------------
(* C1: for every pair of schedules a and b, a.intersects(b) is true iff     *)
(* a.start < b.end and b.start < a.end.  Stated here for the pairs whose    *)
(* intervals both have start < end, where the claim is least in doubt.      *)
C1_IntersectsIffHalfOpen ==
    (called /\ Valid(self) /\ Valid(other))
        => (fwd <=> Overlaps(self, other))

(* C2: add reports a conflict iff some schedule of the loaded calendar      *)
(* overlaps the candidate under the half-open definition.  Stated here     *)
(* for candidates and stored schedules that all have start < end.           *)
C2_ConflictIffOverlap ==
    (cmd.op = "add" /\ Valid(cmd) /\ \A i \in 1..Len(prev) : Valid(prev[i]))
        => (stdout = <<MsgConflict>>
               <=> \E i \in 1..Len(prev) : Overlaps(prev[i], cmd))

(* C3: insertion atomicity: when add reports a conflict, the persisted      *)
(* sequence is the one the invocation started from.                         *)
C3_InsertionAtomicity ==
    AddReported(MsgConflict) => store = prev

C3_Witness ==
    /\ AddReported(MsgConflict)
    /\ Len(prev) >= 2
    /\ ~intersects(prev[1], cmd)

(* C4: id assignment: from the empty calendar, after any sequence of list   *)
(* and add invocations, the schedule at position i (from 0) has id i.       *)
C4_IdAssignment ==
    \A i \in 1..Len(store) : store[i].id = i - 1

C4_Witness ==
    /\ AddReported(MsgConflict)
    /\ Len(store) >= 2
    /\ store[1].id = 0
    /\ store[2].id = 1

(* C5: overlap symmetry: a.intersects(b) equals b.intersects(a).  Stated    *)
(* here for the pairs whose intervals both have start < end.                *)
C5_OverlapSymmetry ==
    (called /\ Valid(self) /\ Valid(other)) => fwd = rev

(* C6: touching endpoints: [t0,t1) and [t1,t2) with t0 < t1 < t2 do not     *)
(* intersect, in either argument order.                                     *)
C6_TouchingEndpoints ==
    (called /\ Valid(self) /\ Valid(other) /\ self.end = other.start)
        => (~fwd /\ ~rev)

(* C7: disjoint non-overlap: for an existing schedule and a candidate with  *)
(* start < end that share no instant, existing.intersects(candidate) is     *)
(* false, whichever of the two comes first.                                 *)
C7_DisjointNonOverlap ==
    (called /\ Valid(self) /\ Valid(other) /\ ~SharesInstant(self, other))
        => ~fwd

(* C8: overlap is detected: for an existing schedule and a candidate with   *)
(* start < end that share an instant, existing.intersects(candidate) is     *)
(* true.                                                                    *)
C8_OverlapDetected ==
    (called /\ Valid(self) /\ Valid(other) /\ SharesInstant(self, other))
        => fwd

(* the existing schedule lies strictly inside the candidate *)
C8_Witness ==
    /\ called
    /\ Valid(self)
    /\ Lt(other.start, self.start)
    /\ Lt(self.end, other.end)
    /\ fwd

(* C9: effect of a successful add: the persisted sequence is the previous   *)
(* one with the candidate (given subject, start, end, id = previous length) *)
(* appended at the end.                                                     *)
C9_SuccessfulAddAppends ==
    AddReported(MsgAdded) =>
        store = Append(prev, [id |-> Len(prev), subject |-> cmd.subject,
                              start |-> cmd.start, end |-> cmd.end])

C9_Witness ==
    /\ AddReported(MsgAdded)
    /\ Len(prev) >= 1
    /\ Len(store) = Len(prev) + 1
    /\ cmd.subject # prev[1].subject

(* C10: list never changes state, and its rows are the stored schedules,    *)
(* one per schedule, in stored order.                                       *)
C10_ListReadOnly ==
    cmd.op = "list" =>
        /\ store = prev
        /\ Len(stdout) = Len(store) + 1
        /\ \A i \in 1..Len(store) :
              stdout[i + 1] = <<store[i].id, store[i].start,
                                store[i].end, store[i].subject>>

(* a listing of a calendar whose stored order is not the order of time *)
C10_Witness ==
    /\ cmd.op = "list"
    /\ Len(store) >= 2
    /\ Lt(store[2].start, store[1].start)
    /\ Len(stdout) = 3

----------------------------------------------------------------------------
(* Vocabulary of the properties of invocations side by side *)

Quiet == \A p \in Procs : procs[p].pc \in {"start", "done", "panicked", "crashed"}

(* invocation p is an add that found no conflict and pushed its candidate *)
Pushed(p) ==
    /\ procs[p].op = "add"
    /\ procs[p].pc \in {"create", "write", "crashed", "done"}
    /\ procs[p].calendar # procs[p].loaded

(* invocation p is an add that printed the success message *)
Succeeded(p) == procs[p].op = "add" /\ procs[p].out = <<MsgAdded>>

(* the candidates of p and q both stand in the file, at two places *)
BothInFile(p, q) ==
    \E i, j \in 1..Len(file.text) :
        /\ i # j
        /\ file.text[i] = TokItem(procs[p].new_schedule)
        /\ file.text[j] = TokItem(procs[q].new_schedule)

----------------------------------------------------------------------------
(* C11: write atomicity of the store: also when an add is interrupted       *)
(* between opening the file for writing and the end of serialization, the   *)
(* store holds a complete document, the prior or the new one, never an      *)
(* empty or partial one.  Stated here for the states in which no invocation *)
(* is in the middle of running.                                             *)
C11_WriteAtomicity ==
    (Quiet /\ file.exists) => WellFormed(file.text)

(* C12: storage unavailable is fatal without fallback: while the store      *)
(* does not exist every invocation that has run has aborted, without        *)
(* output, and no step creates or writes the store.                         *)
C12_StorageUnavailableFatal ==
    /\ [](~file.exists =>
            \A p \in Procs : /\ procs[p].pc \in {"start", "panicked"}
                             /\ procs[p].out = <<>>
                             /\ procs[p].calendar = <<>>)
    /\ [][~file.exists => file' = file]_vars

C12_Witness ==
    /\ ~file.exists
    /\ \E p, q \in Procs :
          /\ procs[p].op = "add" /\ procs[p].pc = "panicked"
          /\ procs[q].op = "list" /\ procs[q].pc = "panicked"

(* C13: lost update: two adds that loaded the same document and both        *)
(* reported success were given the same id, the length of that document,    *)
(* and the store never holds both of their candidates.                      *)
C13_LostUpdate ==
    \A p, q \in Procs :
        (p # q /\ Succeeded(p) /\ Succeeded(q)
              /\ procs[p].loaded = procs[q].loaded)
            => /\ procs[p].new_schedule.id = Len(procs[p].loaded)
               /\ procs[q].new_schedule.id = procs[p].new_schedule.id
               /\ ~BothInFile(p, q)

(* both loaded the empty calendar before either saved, both reported        *)
(* success with id 0, and the store holds the candidate of q alone          *)
C13_Witness ==
    \E p, q \in Procs :
        /\ p # q
        /\ Succeeded(p) /\ Succeeded(q)
        /\ procs[p].loaded = <<>> /\ procs[q].loaded = <<>>
        /\ procs[p].new_schedule.id = 0 /\ procs[q].new_schedule.id = 0
        /\ procs[p].new_schedule # procs[q].new_schedule
        /\ file = FileOf(Serialize(<<procs[q].new_schedule>>))

(* C14: from the empty calendar, after any sequence of adds whose           *)
(* candidates have start < end, no two distinct stored schedules overlap    *)
(* under the half-open definition.  A rejected candidate leaves no trace,   *)
(* so the condition is put on the stored schedules.                         *)
C14_NoStoredOverlap ==
    (\A i \in 1..Len(store) : Valid(store[i]))
        => \A i, j \in 1..Len(store) :
               i # j => ~Overlaps(store[i], store[j])

C14_Witness ==
    /\ AddReported(MsgAdded)
    /\ Len(store) >= 2
    /\ \A i \in 1..Len(store) : Valid(store[i])

(* C15: with each save one atomic replacement of the document, under every  *)
(* interleaving of adds every document in the store has id i at position i  *)
(* (from 0), and of two candidates given the same id at most one is in the  *)
(* store.                                                                   *)
C15_AtomicSaveKeepsIds ==
    /\ file.exists =>
          /\ WellFormed(file.text)
          /\ \A i \in 1..Len(Deserialize(file.text)) :
                Deserialize(file.text)[i].id = i - 1
    /\ \A p, q \in Procs :
          (p # q /\ Pushed(p) /\ Pushed(q)
                /\ procs[p].new_schedule.id = procs[q].new_schedule.id)
              => ~BothInFile(p, q)

(* two adds were given the same id and both saved; the store holds the     *)
(* document of the later save                                              *)
C15_Witness ==
    \E p, q \in Procs :
        /\ p # q
        /\ Succeeded(p) /\ Succeeded(q)
        /\ procs[p].new_schedule.id = procs[q].new_schedule.id
        /\ procs[p].new_schedule # procs[q].new_schedule
        /\ Deserialize(file.text) = <<procs[q].new_schedule>>

====
